---- MODULE Spec2Model ----
(***************************************************************************)
(* Model of the dual-mode locking layer of src/src/mutex.rs (the Gate      *)
(* RAW_ATOMICS_ENABLED, RawSpinLock with its guard, and the reader/writer  *)
(* routines on a packed counter) and of the workload of src/src/main.rs.   *)
(*                                                                         *)
(* Every atomic instruction and every access to the unsynchronised Gate is *)
(* one step; local computation is folded into the step that precedes it.   *)
(* A read of the Gate that races with a store gives the old or the new     *)
(* value.                                                                  *)
(***************************************************************************)
EXTENDS Integers, Sequences, FiniteSets, Bags, TLC

(* ------------------------------ bounds -------------------------------- *)

\* number of execution contexts using RawSpinLock
NumCtx == 3
\* number of execution contexts using the reader/writer lock
NumRwCtx == 2
\* number of RawSpinLock instances in the raw-atomic specification
NumMutex == 2
\* most guards one context keeps alive at once
MaxGuards == 2
\* width w of the machine word holding the reader/writer state (usize::BITS)
WordBits == 3
\* most read acquisitions one context keeps at once
MaxHold == 3
\* increments per worker in the shared-counter workload
NumIter == 2
\* number of workers in the shared-counter workload
NumWorkers == 3
\* number of contexts in the starvation schedules of the reader/writer lock
NumStarveCtx == 3

(* -------------------------- program constants ------------------------- *)

\* the five philosophers / five semaphores of main
NumPhil == 5

Ctx == 1 .. NumCtx
RwCtx == 1 .. NumRwCtx
Mutex == 1 .. NumMutex
\* a single RawSpinLock instance
OneMutex == {1}
Workers == 1 .. NumWorkers
Phil == 1 .. NumPhil
\* SEMAPHORE1 .. SEMAPHORE5
Semaphores == 1 .. NumPhil
\* lk value of a context that is not inside lock_atomic
NoMutex == 0

\* the least element of a nonempty set of numbers
Min(S) == CHOOSE x \in S : \A y \in S : x <= y

VARIABLES
    RAW_ATOMICS_ENABLED, \* the Gate, a plain bool
    gate_seen,           \* the values a read of the Gate by a context may give
    locked,              \* RawSpinLock.locked of every mutex
    pc,                  \* position of every context in its program
    lk,                  \* the mutex whose lock_atomic loop a context is in
    guards,              \* live RawSpinLockGuard values of every context (a bag)
    state,               \* the AtomicUsize of the reader/writer lock
    rwpc,                \* position of every context in the rw routines
    current_state,       \* the local current_state of every context
    rheld,               \* read acquisitions held by every context
    wheld,               \* whether a context holds the write acquisition
    data,                \* the value protected by the mutex (shared counter)
    tmp,                 \* the value a worker read for its increment
    iters                \* increments a worker has completed

mvars == <<RAW_ATOMICS_ENABLED, gate_seen, locked, pc, lk, guards>>
rwvars == <<state, rwpc, current_state, rheld, wheld>>
dvars == <<data, tmp, iters>>
vars == <<RAW_ATOMICS_ENABLED, gate_seen, locked, pc, lk, guards, state,
          rwpc, current_state, rheld, wheld, data, tmp, iters>>

(* ------------------------------ the Gate ------------------------------ *)

\* The Gate is a plain bool in a SyncUnsafeCell: a read by one context and a
\* store by another are not ordered, and the read may give the value from
\* before the store for as long as the reader runs (the optimised build keeps
\* the value it read first).  gate_seen[c] holds the values the Gate has had
\* since context c last synchronised with the storing thread (its spawn).

\* the values a context may read after a store of v by another thread
racy_store(v) == [c \in DOMAIN gate_seen |-> gate_seen[c] \cup {v}]

\* thread::spawn orders the stores made before it against the new thread c:
\* c reads the current value
spawn_synchronises(c) ==
    [gate_seen EXCEPT ![c] = {RAW_ATOMICS_ENABLED}]

raw_atomics_enabled_negated(c) == {~b : b \in gate_seen[c]}

\* raw_atomics_enabled(): the unsynchronised read of the flag by context c,
\* as the set of values the call may return
raw_atomics_enabled(c) == gate_seen[c]

enable_raw_atomics_toggling ==
    /\ RAW_ATOMICS_ENABLED' = ~RAW_ATOMICS_ENABLED
    /\ gate_seen' = racy_store(~RAW_ATOMICS_ENABLED)
    /\ UNCHANGED <<locked, pc, lk, guards>>

\* enable_raw_atomics(): unconditional store of true
enable_raw_atomics ==
    /\ RAW_ATOMICS_ENABLED' = TRUE
    /\ gate_seen' = racy_store(TRUE)
    /\ UNCHANGED <<locked, pc, lk, guards>>

\* disable_raw_atomics(): unconditional store of false (test support)
disable_raw_atomics ==
    /\ RAW_ATOMICS_ENABLED' = FALSE
    /\ gate_seen' = racy_store(FALSE)
    /\ UNCHANGED <<locked, pc, lk, guards>>

(* ---------------------------- RawSpinLock ----------------------------- *)

\* a RawSpinLockGuard { lock, unlock_on_drop }
RawSpinLockGuard(m, u) == [lock |-> m, unlock_on_drop |-> u]

\* the live guards of a context with guard g added / with one g removed
WithGuard(b, g) == b (+) SetToBag({g})

WithoutGuard(b, g) == b (-) SetToBag({g})

\* number of live guards of context c
NumGuards(c) == BagCardinality(guards[c])

compare_exchange_inverted(cur, expected) == cur # expected

compare_exchange_always(cur, expected) == TRUE

\* whether compare_exchange_weak(expected, _) finds the expected value
compare_exchange_weak(cur, expected) == cur = expected

\* unlock_atomic: locked.store(false, Release)
unlock_atomic(m) == [locked EXCEPT ![m] = FALSE]

drop_rereads_gate(g) ==
    IF RAW_ATOMICS_ENABLED THEN unlock_atomic(g.lock) ELSE locked

\* Drop for RawSpinLockGuard: the locked flags after the drop of guard g
drop(g) == IF g.unlock_on_drop THEN unlock_atomic(g.lock) ELSE locked

\* RawSpinLock::lock up to the read of the Gate; when the read gives false
\* the call is over and control continues at ret, else the CAS loop is entered
lock(c, m, ret) ==
    /\ lk[c] = NoMutex
    /\ \E unlock_on_drop \in raw_atomics_enabled(c) :
         IF unlock_on_drop
           THEN /\ lk' = [lk EXCEPT ![c] = m]
                /\ UNCHANGED <<pc, guards>>
           ELSE /\ guards' = [guards EXCEPT
                        ![c] = WithGuard(@, RawSpinLockGuard(m, unlock_on_drop))]
                /\ pc' = [pc EXCEPT ![c] = ret]
                /\ UNCHANGED lk
    /\ UNCHANGED <<RAW_ATOMICS_ENABLED, gate_seen, locked>>

\* lock_atomic: the compare-and-swap false -> true succeeds, lock() returns
\* the guard (unlock_on_drop was read as true before the loop)
lock_atomic(c, ret) ==
    /\ lk[c] # NoMutex
    /\ compare_exchange_weak(locked[lk[c]], FALSE)
    /\ locked' = [locked EXCEPT ![lk[c]] = TRUE]
    /\ guards' = [guards EXCEPT
          ![c] = WithGuard(@, RawSpinLockGuard(lk[c], TRUE))]
    /\ lk' = [lk EXCEPT ![c] = NoMutex]
    /\ pc' = [pc EXCEPT ![c] = ret]
    /\ UNCHANGED <<RAW_ATOMICS_ENABLED, gate_seen>>

\* lock_atomic: the compare-and-swap fails (flag held, or a spurious failure
\* of the weak form); spin_loop() and retry
lock_spin(c) ==
    /\ lk[c] # NoMutex
    /\ UNCHANGED <<RAW_ATOMICS_ENABLED, gate_seen, locked, pc, lk, guards>>

no_lock_unlocking(m) == RawSpinLockGuard(m, TRUE)

\* the guard RawSpinLock::no_lock builds
no_lock_guard(m) == RawSpinLockGuard(m, FALSE)

\* RawSpinLock::no_lock: a guard without touching the lock state
no_lock(c, m, ret) ==
    /\ lk[c] = NoMutex
    /\ guards' = [guards EXCEPT ![c] = WithGuard(@, no_lock_guard(m))]
    /\ pc' = [pc EXCEPT ![c] = ret]
    /\ UNCHANGED <<RAW_ATOMICS_ENABLED, gate_seen, locked, lk>>

\* the live guard g of context c goes out of scope
drop_guard(c, g, ret) ==
    /\ lk[c] = NoMutex
    /\ BagIn(g, guards[c])
    /\ locked' = drop(g)
    /\ guards' = [guards EXCEPT ![c] = WithoutGuard(@, g)]
    /\ pc' = [pc EXCEPT ![c] = ret]
    /\ UNCHANGED <<RAW_ATOMICS_ENABLED, gate_seen, lk>>

(* --------------- generic contexts using one or more mutexes ------------ *)

InitRw0 ==
    /\ state = 0
    /\ rwpc = [c \in RwCtx |-> "idle"]
    /\ current_state = [c \in RwCtx |-> 0]
    /\ rheld = [c \in RwCtx |-> 0]
    /\ wheld = [c \in RwCtx |-> FALSE]

InitData0 ==
    /\ data = 0
    /\ tmp = [c \in Ctx |-> 0]
    /\ iters = [c \in Ctx |-> 0]

InitMutex(gate) ==
    /\ RAW_ATOMICS_ENABLED = gate
    /\ gate_seen = [c \in Ctx |-> {gate}]
    /\ locked = [m \in OneMutex |-> FALSE]
    /\ pc = [c \in Ctx |-> "run"]
    /\ lk = [c \in Ctx |-> NoMutex]
    /\ guards = [c \in Ctx |-> EmptyBag]

\* state after construction: Gate false, every mutex unlocked, no guard
Init == InitMutex(FALSE) /\ InitRw0 /\ InitData0

Lock(c, m) ==
    /\ pc[c] = "run"
    /\ NumGuards(c) < MaxGuards
    /\ lock(c, m, "run")
    /\ UNCHANGED <<rwvars, dvars>>

LockAcquire(c) == lock_atomic(c, "run") /\ UNCHANGED <<rwvars, dvars>>

LockSpin(c) == lock_spin(c) /\ UNCHANGED <<rwvars, dvars>>

NoLock(c, m) ==
    /\ pc[c] = "run"
    /\ NumGuards(c) < MaxGuards
    /\ no_lock(c, m, "run")
    /\ UNCHANGED <<rwvars, dvars>>

Drop(c, g) == drop_guard(c, g, "run") /\ UNCHANGED <<rwvars, dvars>>

\* the mutexes of the specification at hand
Mutexes == DOMAIN locked

\* the guard values over these mutexes
Guards == {RawSpinLockGuard(m, u) : m \in Mutexes, u \in BOOLEAN}

Enable == enable_raw_atomics /\ UNCHANGED <<rwvars, dvars>>

Disable == disable_raw_atomics /\ UNCHANGED <<rwvars, dvars>>

\* every operation of mutex.rs on RawSpinLock and the Gate, any interleaving
Next ==
    \/ Enable
    \/ Disable
    \/ \E c \in Ctx, m \in Mutexes : Lock(c, m)
    \/ \E c \in Ctx : LockAcquire(c)
    \/ \E c \in Ctx : LockSpin(c)
    \/ \E c \in Ctx, m \in Mutexes : NoLock(c, m)
    \/ \E c \in Ctx, g \in Guards : Drop(c, g)

Spec == Init /\ [][Next]_vars

\* guards from lock() only, the Gate set and reset at any time (the reset is
\* the test-support operation)
NextGate ==
    \/ Enable
    \/ Disable
    \/ \E c \in Ctx, m \in Mutexes : Lock(c, m)
    \/ \E c \in Ctx : LockAcquire(c)
    \/ \E c \in Ctx : LockSpin(c)
    \/ \E c \in Ctx, g \in Guards : Drop(c, g)

SpecGate == Init /\ [][NextGate]_vars

\* production use through lock() only: the Gate is never reset
NextProd ==
    \/ Enable
    \/ \E c \in Ctx, m \in Mutexes : Lock(c, m)
    \/ \E c \in Ctx : LockAcquire(c)
    \/ \E c \in Ctx : LockSpin(c)
    \/ \E c \in Ctx, g \in Guards : Drop(c, g)

SpecProd == Init /\ [][NextProd]_vars

\* raw-atomic mode: the Gate is enabled in the single-context phase, then
\* the contexts are started; every guard comes from lock()
InitRaw ==
    /\ RAW_ATOMICS_ENABLED = FALSE
    /\ gate_seen = [c \in Ctx |-> {FALSE}]
    /\ locked = [m \in Mutex |-> FALSE]
    /\ pc = [c \in Ctx |-> "unspawned"]
    /\ lk = [c \in Ctx |-> NoMutex]
    /\ guards = [c \in Ctx |-> EmptyBag]
    /\ InitRw0
    /\ InitData0

\* main: mutex::enable_raw_atomics() before any thread of the phase exists
EnableBeforeSpawn ==
    /\ \A c \in Ctx : pc[c] = "unspawned"
    /\ ~RAW_ATOMICS_ENABLED
    /\ enable_raw_atomics
    /\ UNCHANGED <<rwvars, dvars>>

\* the contexts main has not started yet
Unspawned == {c \in Ctx : pc[c] = "unspawned"}

\* the next thread::spawn of main, in the order of the vector; the threads
\* started before it run meanwhile
thread_spawn ==
    /\ Unspawned # {}
    /\ LET c == Min(Unspawned) IN
         /\ pc' = [pc EXCEPT ![c] = "run"]
         /\ gate_seen' = spawn_synchronises(c)
    /\ UNCHANGED <<RAW_ATOMICS_ENABLED, locked, lk, guards>>

\* main: the spawn loop of the raw-atomic phase
Spawn ==
    /\ RAW_ATOMICS_ENABLED
    /\ thread_spawn
    /\ UNCHANGED <<rwvars, dvars>>

NextRaw ==
    \/ EnableBeforeSpawn
    \/ Spawn
    \/ \E c \in Ctx, m \in Mutexes : Lock(c, m)
    \/ \E c \in Ctx : LockAcquire(c)
    \/ \E c \in Ctx : LockSpin(c)
    \/ \E c \in Ctx, g \in Guards : Drop(c, g)

SpecRaw == InitRaw /\ [][NextRaw]_vars

\* either mode, fixed for the run: guards come from lock() and from no_lock()
InitEither ==
    /\ \E gate \in BOOLEAN : InitMutex(gate)
    /\ InitRw0
    /\ InitData0

NextEither ==
    \/ \E c \in Ctx, m \in Mutexes : Lock(c, m)
    \/ \E c \in Ctx : LockAcquire(c)
    \/ \E c \in Ctx : LockSpin(c)
    \/ \E c \in Ctx, m \in Mutexes : NoLock(c, m)
    \/ \E c \in Ctx, g \in Guards : Drop(c, g)

SpecEither == InitEither /\ [][NextEither]_vars

(* ------------------------- RawSpinLock properties ---------------------- *)

\* number of live guards of context c on mutex m
HeldOn(c, m) ==
    CopiesIn(RawSpinLockGuard(m, TRUE), guards[c])
        + CopiesIn(RawSpinLockGuard(m, FALSE), guards[c])

RECURSIVE SumOver(_, _)
SumOver(S, f) ==
    IF S = {} THEN 0
    ELSE LET x == CHOOSE y \in S : TRUE IN f[x] + SumOver(S \ {x}, f)

\* number of live guards of mutex m, over all contexts
GuardsOf(m) == SumOver(DOMAIN guards, [c \in DOMAIN guards |-> HeldOn(c, m)])

\* number of live guards of mutex m that unlock at their drop
UnlockingGuardsOf(m) ==
    SumOver(DOMAIN guards,
            [c \in DOMAIN guards |->
                CopiesIn(RawSpinLockGuard(m, TRUE), guards[c])])

\* context c drops a guard g in this step
DropStep(c, g) ==
    /\ guards'[c] # guards[c]
    /\ BagIn(g, guards[c])
    /\ guards'[c] = WithoutGuard(guards[c], g)

\* context c obtains the new guard g in this step
NewGuardStep(c, g) ==
    /\ guards'[c] # guards[c]
    /\ guards'[c] = WithGuard(guards[c], g)

\* C1. Mutual exclusion in raw-atomic mode: with the Gate true for the whole
\* run and every guard obtained by lock(), no mutex ever has more than one
\* live guard, whatever the interleaving of the contexts' lock and drop steps.
C1_MutualExclusion == \A m \in Mutexes : GuardsOf(m) <= 1

\* one context is in its critical section while another spins on the mutex
C1_Witness ==
    \E m \in Mutexes, c \in Ctx, d \in Ctx :
        /\ c # d
        /\ BagIn(RawSpinLockGuard(m, TRUE), guards[c])
        /\ lk[d] = m
        /\ locked[m]

\* C5 as stated: the mode of a guard is the value of the Gate at the lock()
\* that made it (the compare-and-swap loop is entered only with the Gate
\* true, a no-op guard is handed out only with the Gate false), and the drop
\* of a guard does what the guard's recorded mode says whatever the Gate is
\* at that time.
C5_GuardModeStability ==
    [][\A c \in Ctx :
          /\ (lk[c] = NoMutex /\ lk'[c] # NoMutex) => RAW_ATOMICS_ENABLED
          /\ \A m \in Mutexes :
                NewGuardStep(c, RawSpinLockGuard(m, FALSE))
                    => ~RAW_ATOMICS_ENABLED
          /\ \A g \in Guards :
                DropStep(c, g) =>
                    /\ (~g.unlock_on_drop /\ RAW_ATOMICS_ENABLED)
                          => locked' = locked
                    /\ (g.unlock_on_drop /\ ~RAW_ATOMICS_ENABLED)
                          => locked' = [locked EXCEPT ![g.lock] = FALSE]
      ]_vars

\* C5 as amended: the mode of a guard is the value lock() read from the Gate,
\* which is a value the Gate has had since the context was started and not
\* necessarily its value at the time of the call (the compare-and-swap loop
\* is entered only on a read of true, a no-op guard is handed out only on a
\* read of false; the read is the current value when no store was made since
\* the context started); the drop of a guard does what the guard's recorded
\* mode says whatever the Gate is at that time: a guard recorded as no-op
\* leaves every locked flag as it was even when the Gate is true at the
\* drop, and a guard recorded as atomic clears the flag of its mutex (and no
\* other) even when the Gate is false at the drop.
C5_ModeFixedAtRead ==
    [][\A c \in Ctx :
          /\ (lk[c] = NoMutex /\ lk'[c] # NoMutex) =>
                /\ TRUE \in gate_seen[c]
                /\ gate_seen[c] = {RAW_ATOMICS_ENABLED} => RAW_ATOMICS_ENABLED
          /\ \A m \in Mutexes :
                NewGuardStep(c, RawSpinLockGuard(m, FALSE)) =>
                    /\ FALSE \in gate_seen[c]
                    /\ gate_seen[c] = {RAW_ATOMICS_ENABLED}
                          => ~RAW_ATOMICS_ENABLED
          /\ \A g \in Guards :
                DropStep(c, g) =>
                    /\ (~g.unlock_on_drop /\ RAW_ATOMICS_ENABLED)
                          => locked' = locked
                    /\ (g.unlock_on_drop /\ ~RAW_ATOMICS_ENABLED)
                          => locked' = [locked EXCEPT ![g.lock] = FALSE]
      ]_vars

\* a guard that lock() handed out in bring-up mode is live after the Gate was
\* set, on a mutex whose flag is set by another context (the drop of that
\* guard must leave the flag alone)
C5_Witness ==
    \E c \in Ctx, d \in Ctx, m \in Mutexes :
        /\ c # d
        /\ RAW_ATOMICS_ENABLED
        /\ locked[m]
        /\ BagIn(RawSpinLockGuard(m, FALSE), guards[c])
        /\ BagIn(RawSpinLockGuard(m, TRUE), guards[d])

\* C6. Bring-up elision: as long as the Gate is false (it has never been
\* enabled), no locked flag is set and no context is inside the
\* compare-and-swap loop: every lock() returned at once, also with other
\* guards of the same mutex outstanding.
C6_BringUpElision ==
    ~RAW_ATOMICS_ENABLED =>
        /\ \A m \in Mutexes : ~locked[m]
        /\ \A c \in Ctx : lk[c] = NoMutex

\* bring-up mode, two contexts hold guards of the same mutex at once and a
\* third holds a guard too
C6_Witness ==
    /\ ~RAW_ATOMICS_ENABLED
    /\ \E m \in Mutexes : Cardinality({c \in Ctx : HeldOn(c, m) > 0}) >= 2
    /\ \A m \in Mutexes : ~locked[m]

\* C10. no_lock neither acquires nor releases, in either Gate mode: the step
\* that hands out a guard recorded as no-op changes no locked flag and puts
\* no context into the compare-and-swap loop, the drop of such a guard
\* changes no locked flag, and so a mutex held through lock() in raw-atomic
\* mode keeps its flag set (nobody else can acquire it) while no_lock guards
\* of it come and go.
C10_NoLockFrame ==
    /\ [](\A m \in Mutexes :
            /\ UnlockingGuardsOf(m) > 0 => locked[m]
            /\ UnlockingGuardsOf(m) <= 1)
    /\ [][\A c \in Ctx :
            \A m \in Mutexes :
                /\ NewGuardStep(c, RawSpinLockGuard(m, FALSE))
                      => (locked' = locked /\ lk' = lk /\ lk[c] = NoMutex)
                /\ DropStep(c, RawSpinLockGuard(m, FALSE))
                      => locked' = locked
         ]_vars

\* raw-atomic mode: one context holds the mutex through lock(), another holds
\* a no_lock guard of the same mutex, a third spins in lock() on it
C10_Witness ==
    \E m \in Mutexes, c \in Ctx, d \in Ctx, e \in Ctx :
        /\ c # d /\ d # e /\ c # e
        /\ RAW_ATOMICS_ENABLED
        /\ locked[m]
        /\ BagIn(RawSpinLockGuard(m, TRUE), guards[c])
        /\ BagIn(RawSpinLockGuard(m, FALSE), guards[d])
        /\ lk[e] = m

(* ---------------- the workload of main: raw-atomic phase --------------- *)

\* Philosopher::new(n, left, right) as main builds them for n = 1 .. 5
Left(p) == p

Right(p) == (p % NumPhil) + 1

\* state at the spawn of the second group of threads: enable_raw_atomics()
\* has run, the first group is joined, every semaphore is free
InitPhil ==
    /\ RAW_ATOMICS_ENABLED = TRUE
    /\ gate_seen = [p \in Phil |-> {TRUE}]
    /\ locked = [m \in Semaphores |-> FALSE]
    /\ pc = [p \in Phil |-> "lock_left"]
    /\ lk = [p \in Phil |-> NoMutex]
    /\ guards = [p \in Phil |-> EmptyBag]
    /\ InitRw0
    /\ InitData0

\* eat: let _left = self.1.lock();
EatLockLeft(p) ==
    /\ pc[p] = "lock_left"
    /\ lock(p, Left(p), "lock_right")
    /\ UNCHANGED <<rwvars, dvars>>

\* eat: let _right = self.2.lock();
EatLockRight(p) ==
    /\ pc[p] = "lock_right"
    /\ lock(p, Right(p), "eating")
    /\ UNCHANGED <<rwvars, dvars>>

\* the compare-and-swap of the pending lock() succeeds
EatAcquire(p) ==
    /\ lock_atomic(p, IF pc[p] = "lock_left" THEN "lock_right" ELSE "eating")
    /\ UNCHANGED <<rwvars, dvars>>

\* the compare-and-swap of the pending lock() fails
EatSpin(p) == lock_spin(p) /\ UNCHANGED <<rwvars, dvars>>

\* end of eat: locals are dropped in reverse order of declaration
EatDropRight(p) ==
    /\ pc[p] = "eating"
    /\ \E u \in BOOLEAN :
          drop_guard(p, RawSpinLockGuard(Right(p), u), "drop_left")
    /\ UNCHANGED <<rwvars, dvars>>

EatDropLeft(p) ==
    /\ pc[p] = "drop_left"
    /\ \E u \in BOOLEAN :
          drop_guard(p, RawSpinLockGuard(Left(p), u), "done")
    /\ UNCHANGED <<rwvars, dvars>>

NextPhil ==
    \/ \E p \in Phil : EatLockLeft(p)
    \/ \E p \in Phil : EatLockRight(p)
    \/ \E p \in Phil : EatAcquire(p)
    \/ \E p \in Phil : EatSpin(p)
    \/ \E p \in Phil : EatDropRight(p)
    \/ \E p \in Phil : EatDropLeft(p)

SpecPhil == InitPhil /\ [][NextPhil]_vars

\* C2. Scenario A: the five workers of main, run in raw-atomic mode, never
\* reach a state in which every worker is inside lock() on a semaphore that
\* is held (from which no worker can ever proceed), so that the run ends.
C2_NoDeadlock ==
    ~(\A p \in Phil : lk[p] # NoMutex /\ locked[lk[p]])

(* ----------------- reader/writer lock on a packed counter -------------- *)

\* const WRITE_FLAG: usize = 1 << (usize::BITS - 1)
WRITE_FLAG == 2 ^ (WordBits - 1)

\* usize::MAX
WordMax == 2 ^ WordBits - 1

\* the largest reader count that leaves the write flag clear
MaxReaders == WRITE_FLAG - 1

\* result of a checked operation that overflowed
None == -1

\* x & WRITE_FLAG != 0
HasWriteFlag(x) == (x \div WRITE_FLAG) % 2 = 1

\* x & !WRITE_FLAG
ReaderBits(x) == x - (IF HasWriteFlag(x) THEN WRITE_FLAG ELSE 0)

\* x | WRITE_FLAG
SetWriteFlag(x) == IF HasWriteFlag(x) THEN x ELSE x + WRITE_FLAG

\* usize::checked_add
checked_add(x, y) == IF x + y > WordMax THEN None ELSE x + y

wrapping_add(x, y) == (x + y) % (WordMax + 1)

\* AtomicUsize::fetch_sub stores the wrapping difference
wrapping_sub(x, y) == (x - y) % (WordMax + 1)

read_skips_overflow_test(cur) ==
    IF HasWriteFlag(cur) THEN None ELSE checked_add(cur, 1)

read_ignores_write_flag(cur) ==
    IF checked_add(cur, 1) = None THEN None ELSE checked_add(cur, 1)

\* the body of the loop of rw_read_lock_atomic after the load: the
\* next_state to compare-and-swap in, or None when the loop spins instead
read_next_state(cur) ==
    IF HasWriteFlag(cur) THEN None
    ELSE IF checked_add(cur, 1) = None THEN None
    ELSE IF HasWriteFlag(checked_add(cur, 1)) THEN None
    ELSE checked_add(cur, 1)

write_admits_always(cur) == TRUE

\* rw_write_lock_atomic attempts its compare-and-swap only with the flag clear
write_may_attempt(cur) == ~HasWriteFlag(cur)

drained_at_once(cur) == TRUE

\* the exit test of the drain loop of rw_write_lock_atomic
drained(cur) == ReaderBits(cur) = 0

\* the positions of a context inside rw_read_lock_atomic between two loads:
\* at one of the spin_loop() calls of the loop (the flag was seen set, the
\* increment would reach the flag bit, the compare-and-swap failed)
ReadSpinning == {"r_spin_flag", "r_spin_full", "r_retry"}

\* the positions of a context inside rw_write_lock_atomic between two loads
WriteSpinning == {"w_spin_flag", "w_retry"}

\* rw_read_lock_atomic: state.load and the tests that follow it; the local
\* current_state is kept only up to the compare-and-swap that uses it
r_load(c) ==
    /\ rwpc[c] \in {"idle"} \cup ReadSpinning
    /\ rwpc[c] = "idle" => rheld[c] < MaxHold
    /\ IF read_next_state(state) # None
         THEN /\ rwpc' = [rwpc EXCEPT ![c] = "r_cas"]
              /\ current_state' = [current_state EXCEPT ![c] = state]
         ELSE /\ rwpc' = [rwpc EXCEPT
                    ![c] = IF HasWriteFlag(state) THEN "r_spin_flag"
                           ELSE "r_spin_full"]
              /\ UNCHANGED current_state
    /\ UNCHANGED <<state, rheld, wheld>>

\* rw_read_lock_atomic: the compare-and-swap succeeds, the routine returns
r_cas(c) ==
    /\ rwpc[c] = "r_cas"
    /\ compare_exchange_weak(state, current_state[c])
    /\ state' = read_next_state(current_state[c])
    /\ rheld' = [rheld EXCEPT ![c] = @ + 1]
    /\ rwpc' = [rwpc EXCEPT ![c] = "idle"]
    /\ current_state' = [current_state EXCEPT ![c] = 0]
    /\ UNCHANGED wheld

\* rw_read_lock_atomic: the compare-and-swap fails (the state changed, or a
\* spurious failure of the weak form); spin_loop() and load again
r_cas_fail(c) ==
    /\ rwpc[c] = "r_cas"
    /\ rwpc' = [rwpc EXCEPT ![c] = "r_retry"]
    /\ current_state' = [current_state EXCEPT ![c] = 0]
    /\ UNCHANGED <<state, rheld, wheld>>

\* rw_read_unlock_atomic: state.fetch_sub(1, Release), by a holder
rw_read_unlock_atomic(c) ==
    /\ rwpc[c] = "idle"
    /\ rheld[c] > 0
    /\ state' = wrapping_sub(state, 1)
    /\ rheld' = [rheld EXCEPT ![c] = @ - 1]
    /\ UNCHANGED <<rwpc, current_state, wheld>>

\* rw_write_lock_atomic: state.load and the test of the write flag
w_load(c) ==
    /\ rwpc[c] \in {"idle"} \cup WriteSpinning
    /\ IF write_may_attempt(state)
         THEN /\ rwpc' = [rwpc EXCEPT ![c] = "w_cas"]
              /\ current_state' = [current_state EXCEPT ![c] = state]
         ELSE /\ rwpc' = [rwpc EXCEPT ![c] = "w_spin_flag"]
              /\ UNCHANGED current_state
    /\ UNCHANGED <<state, rheld, wheld>>

\* rw_write_lock_atomic: the compare-and-swap sets the write flag
w_cas(c) ==
    /\ rwpc[c] = "w_cas"
    /\ compare_exchange_weak(state, current_state[c])
    /\ state' = SetWriteFlag(current_state[c])
    /\ rwpc' = [rwpc EXCEPT ![c] = "w_drain"]
    /\ current_state' = [current_state EXCEPT ![c] = 0]
    /\ UNCHANGED <<rheld, wheld>>

\* rw_write_lock_atomic: the compare-and-swap fails; load again
w_cas_fail(c) ==
    /\ rwpc[c] = "w_cas"
    /\ rwpc' = [rwpc EXCEPT ![c] = "w_retry"]
    /\ current_state' = [current_state EXCEPT ![c] = 0]
    /\ UNCHANGED <<state, rheld, wheld>>

\* rw_write_lock_atomic: one pass of the drain loop; the routine returns
\* when the reader bits are zero and spins otherwise
w_drain(c) ==
    /\ rwpc[c] = "w_drain"
    /\ IF drained(state)
         THEN /\ wheld' = [wheld EXCEPT ![c] = TRUE]
              /\ rwpc' = [rwpc EXCEPT ![c] = "idle"]
         ELSE UNCHANGED <<wheld, rwpc>>
    /\ UNCHANGED <<state, current_state, rheld>>

\* rw_write_unlock_atomic: state.fetch_and(!WRITE_FLAG, Release), by the holder
rw_write_unlock_atomic(c) ==
    /\ rwpc[c] = "idle"
    /\ wheld[c]
    /\ state' = ReaderBits(state)
    /\ wheld' = [wheld EXCEPT ![c] = FALSE]
    /\ UNCHANGED <<rwpc, current_state, rheld>>

InitRw == InitMutex(FALSE) /\ InitRw0 /\ InitData0

NextRw ==
    \/ \E c \in RwCtx : r_load(c) /\ UNCHANGED <<mvars, dvars>>
    \/ \E c \in RwCtx : r_cas(c) /\ UNCHANGED <<mvars, dvars>>
    \/ \E c \in RwCtx : r_cas_fail(c) /\ UNCHANGED <<mvars, dvars>>
    \/ \E c \in RwCtx : rw_read_unlock_atomic(c) /\ UNCHANGED <<mvars, dvars>>
    \/ \E c \in RwCtx : w_load(c) /\ UNCHANGED <<mvars, dvars>>
    \/ \E c \in RwCtx : w_cas(c) /\ UNCHANGED <<mvars, dvars>>
    \/ \E c \in RwCtx : w_cas_fail(c) /\ UNCHANGED <<mvars, dvars>>
    \/ \E c \in RwCtx : w_drain(c) /\ UNCHANGED <<mvars, dvars>>
    \/ \E c \in RwCtx : rw_write_unlock_atomic(c) /\ UNCHANGED <<mvars, dvars>>

SpecRw == InitRw /\ [][NextRw]_vars

(* ------------------------ reader/writer properties --------------------- *)

\* C3 as stated: the write flag is never set while the reader-count bits are
\* nonzero.
C3_FlagExcludesReaders == ~(HasWriteFlag(state) /\ ReaderBits(state) # 0)

\* C3 as amended: the write flag is set together with nonzero reader-count
\* bits only while the writer that set it is still in the drain loop of
\* rw_write_lock_atomic and nobody holds the write acquisition; whenever a
\* context holds the write acquisition the state is exactly WRITE_FLAG.
C3_FlagWithReadersOnlyInDrain ==
    /\ (HasWriteFlag(state) /\ ReaderBits(state) # 0) =>
          /\ \E c \in RwCtx : rwpc[c] = "w_drain"
          /\ \A c \in RwCtx : ~wheld[c]
    /\ (\E c \in RwCtx : wheld[c]) => state = WRITE_FLAG

\* a writer has set the flag over admitted readers and waits for them
C3_Witness ==
    \E c \in RwCtx, d \in RwCtx :
        /\ c # d
        /\ rwpc[c] = "w_drain"
        /\ rheld[d] > 0
        /\ HasWriteFlag(state)
        /\ ReaderBits(state) # 0

\* C4. Holder exclusion: while a context holds the write acquisition, no
\* other context holds a read acquisition or the write acquisition.
C4_HolderExclusion ==
    \A c \in RwCtx :
        wheld[c] => \A d \in RwCtx \ {c} : rheld[d] = 0 /\ ~wheld[d]

\* a writer holds the lock while another context waits in each of the two
\* acquisition routines
C4_Witness ==
    \E c \in RwCtx, d \in RwCtx, e \in RwCtx :
        /\ wheld[c]
        /\ d # c /\ rwpc[d] = "r_spin_flag"
        /\ e # c /\ rwpc[e] \in {"r_spin_flag", "w_spin_flag"}

\* several contexts hold read acquisitions at the same time
ReadersShare == \E c \in RwCtx, d \in RwCtx : c # d /\ rheld[c] > 0 /\ rheld[d] > 0

\* C7. Overflow safety: a reader reaches its compare-and-swap only with a
\* loaded count below the maximum and the flag clear, and a load of a count
\* one below the maximum admits the reader with the maximum as next state;
\* while the count is at its maximum no read acquisition completes and the
\* state only stays, loses one reader, or has its flag set or cleared; the
\* write flag is only ever set by the compare-and-swap of a writer.
C7_OverflowSafety ==
    /\ [](\A c \in RwCtx :
            rwpc[c] = "r_cas" =>
                /\ ~HasWriteFlag(current_state[c])
                /\ current_state[c] < MaxReaders)
    /\ [](state = MaxReaders - 1 => read_next_state(state) = MaxReaders)
    /\ [][ReaderBits(state) = MaxReaders =>
            /\ \A c \in RwCtx : rheld'[c] <= rheld[c]
            /\ state' \in {state, wrapping_sub(state, 1),
                           SetWriteFlag(state), ReaderBits(state)}
         ]_vars
    /\ [][(~HasWriteFlag(state) /\ HasWriteFlag(state')) =>
            \E c \in RwCtx : rwpc[c] = "w_cas" /\ rwpc'[c] = "w_drain"
         ]_vars

\* the count is at its maximum and a further reader has loaded it and spins
C7_Witness ==
    \E c \in RwCtx :
        /\ state = MaxReaders
        /\ rwpc[c] = "r_spin_full"
        /\ rheld[c] = 0

(* ------------- scenario B: a shared counter behind one mutex ----------- *)

\* the mutex that owns the counter
CounterMutex == CHOOSE m \in OneMutex : TRUE

\* the experiment is run once in each mode; the Gate is set (or left) before
\* the workers are spawned and not touched again
InitCounter ==
    /\ RAW_ATOMICS_ENABLED \in BOOLEAN
    /\ gate_seen = [w \in Workers |-> {RAW_ATOMICS_ENABLED}]
    /\ locked = [m \in OneMutex |-> FALSE]
    /\ pc = [w \in Workers |-> "lock"]
    /\ lk = [w \in Workers |-> NoMutex]
    /\ guards = [w \in Workers |-> EmptyBag]
    /\ data = 0
    /\ tmp = [w \in Workers |-> 0]
    /\ iters = [w \in Workers |-> 0]
    /\ InitRw0

\* let mut guard = COUNTER.lock();
WorkerLock(w) ==
    /\ pc[w] = "lock"
    /\ lock(w, CounterMutex, "read")
    /\ UNCHANGED <<rwvars, dvars>>

WorkerAcquire(w) == lock_atomic(w, "read") /\ UNCHANGED <<rwvars, dvars>>

WorkerSpin(w) == lock_spin(w) /\ UNCHANGED <<rwvars, dvars>>

\* *guard += 1, the read half (Deref)
WorkerRead(w) ==
    /\ pc[w] = "read"
    /\ tmp' = [tmp EXCEPT ![w] = data]
    /\ pc' = [pc EXCEPT ![w] = "write"]
    /\ UNCHANGED <<RAW_ATOMICS_ENABLED, gate_seen, locked, lk, guards, data, iters, rwvars>>

\* *guard += 1, the write half (DerefMut)
WorkerWrite(w) ==
    /\ pc[w] = "write"
    /\ data' = tmp[w] + 1
    /\ tmp' = [tmp EXCEPT ![w] = 0]
    /\ pc' = [pc EXCEPT ![w] = "drop"]
    /\ UNCHANGED <<RAW_ATOMICS_ENABLED, gate_seen, locked, lk, guards, iters, rwvars>>

\* the guard goes out of scope; next iteration, or the worker is finished
WorkerDrop(w) ==
    /\ pc[w] = "drop"
    /\ \E u \in BOOLEAN :
          drop_guard(w, RawSpinLockGuard(CounterMutex, u),
                     IF iters[w] + 1 = NumIter THEN "done" ELSE "lock")
    /\ iters' = [iters EXCEPT ![w] = @ + 1]
    /\ UNCHANGED <<data, tmp, rwvars>>

NextCounter ==
    \/ \E w \in Workers : WorkerLock(w)
    \/ \E w \in Workers : WorkerAcquire(w)
    \/ \E w \in Workers : WorkerSpin(w)
    \/ \E w \in Workers : WorkerRead(w)
    \/ \E w \in Workers : WorkerWrite(w)
    \/ \E w \in Workers : WorkerDrop(w)

SpecCounter == InitCounter /\ [][NextCounter]_vars

AllDone == \A w \in Workers : pc[w] = "done"

InCritical(w) == pc[w] \in {"read", "write", "drop"}

\* C8. Scenario B in raw-atomic mode: with the Gate true throughout, when
\* every worker has finished its NumIter increments, each made inside a
\* critical section of the same mutex, the counter equals
\* NumWorkers * NumIter; and no two workers are in the critical section.
C8_NoLostUpdate ==
    RAW_ATOMICS_ENABLED =>
        /\ AllDone => data = NumWorkers * NumIter
        /\ \A v \in Workers, w \in Workers :
              (InCritical(v) /\ InCritical(w)) => v = w

\* the raw-atomic run has ended
C8_Witness ==
    /\ RAW_ATOMICS_ENABLED
    /\ AllDone
    /\ data = NumWorkers * NumIter
    /\ \A w \in Workers : iters[w] = NumIter

\* C9. Scenario B in bring-up mode: with the Gate false throughout, lock()
\* gives no exclusion: the locked flag is never set, no worker ever waits in
\* lock(), every guard is a no-op guard, and the final counter is at most
\* NumWorkers * NumIter; it can be less (the witness).
C9_BringUpNoExclusion ==
    ~RAW_ATOMICS_ENABLED =>
        /\ ~locked[CounterMutex]
        /\ \A w \in Workers :
              /\ lk[w] = NoMutex
              /\ ~BagIn(RawSpinLockGuard(CounterMutex, TRUE), guards[w])
              /\ pc[w] = "lock" => ENABLED WorkerLock(w)
        /\ AllDone => (data >= 1 /\ data <= NumWorkers * NumIter)

\* the bring-up run has ended with updates lost
C9_Witness ==
    /\ ~RAW_ATOMICS_ENABLED
    /\ AllDone
    /\ data < NumWorkers * NumIter

\* two workers are in the critical section at once, about to write the same
\* value
C9_Overlap ==
    \E v \in Workers, w \in Workers :
        /\ v # w
        /\ ~RAW_ATOMICS_ENABLED
        /\ pc[v] = "write" /\ pc[w] = "write"
        /\ tmp[v] = tmp[w]

(* ------------------- re-acquisition by the same context ---------------- *)

\* a run exercises one primitive: either the contexts use a RawSpinLock, or
\* they use the reader/writer routines (the two share no state); the
\* contexts of the other primitive have no program
InitOnePrimitive(gate) ==
    /\ RAW_ATOMICS_ENABLED = gate
    /\ gate_seen = [c \in Ctx |-> {gate}]
    /\ locked = [m \in OneMutex |-> FALSE]
    /\ lk = [c \in Ctx |-> NoMutex]
    /\ guards = [c \in Ctx |-> EmptyBag]
    /\ state = 0
    /\ current_state = [c \in RwCtx |-> 0]
    /\ rheld = [c \in RwCtx |-> 0]
    /\ wheld = [c \in RwCtx |-> FALSE]
    /\ InitData0
    /\ \/ pc = [c \in Ctx |-> "run"] /\ rwpc = [c \in RwCtx |-> "unused"]
       \/ pc = [c \in Ctx |-> "unused"] /\ rwpc = [c \in RwCtx |-> "idle"]

\* the RawSpinLock run is in raw-atomic mode from the start
InitReentrant == InitOnePrimitive(TRUE)

NextReentrant ==
    \/ \E c \in Ctx, m \in Mutexes : Lock(c, m)
    \/ \E c \in Ctx : LockAcquire(c)
    \/ \E c \in Ctx : LockSpin(c)
    \/ \E c \in Ctx, g \in Guards : Drop(c, g)
    \/ NextRw

SpecReentrant == InitReentrant /\ [][NextReentrant]_vars

\* C11 as stated: a context that holds a primitive never completes a second
\* acquisition of the same primitive (lock() on a mutex it holds a guard of,
\* a read acquisition while it holds one, a write acquisition while it holds
\* the write acquisition).
C11_NoReentrancy ==
    [][/\ \A c \in Ctx, m \in Mutexes :
             HeldOn(c, m) > 0 => HeldOn(c, m)' <= HeldOn(c, m)
       /\ \A c \in RwCtx : rheld[c] > 0 => rheld'[c] <= rheld[c]
       /\ \A c \in RwCtx :
             wheld[c] => ~(rwpc[c] = "w_drain" /\ rwpc'[c] = "idle")
      ]_vars

\* C11 as amended: in raw-atomic mode a context that holds a guard of a mutex
\* and calls lock() on it again gets no second guard and stays in the
\* compare-and-swap loop for ever, and a context that holds the write
\* acquisition and starts a read or a write acquisition never sets the flag,
\* never completes and stays in that routine for ever (it cannot release
\* either); a second read acquisition by a context that holds one is counted
\* like any other reader: it completes, by one compare-and-swap that adds
\* one to the count, and only with the write flag clear.
C11_SelfDeadlockExceptReads ==
    [][/\ \A c \in Ctx, m \in Mutexes :
             /\ HeldOn(c, m) > 0 => HeldOn(c, m)' <= HeldOn(c, m)
             /\ (HeldOn(c, m) > 0 /\ lk[c] = m) =>
                    (lk'[c] = m /\ guards'[c] = guards[c] /\ locked'[m])
       /\ \A c \in RwCtx :
             /\ wheld[c] =>
                    /\ rwpc'[c] \in {"idle", "r_spin_flag", "w_spin_flag"}
                    /\ rheld'[c] = rheld[c]
             /\ (wheld[c] /\ rwpc[c] # "idle") =>
                    (rwpc'[c] = rwpc[c] /\ wheld'[c] /\ HasWriteFlag(state'))
             /\ rheld'[c] > rheld[c] =>
                    /\ rwpc[c] = "r_cas" /\ rwpc'[c] = "idle"
                    /\ ~HasWriteFlag(state)
                    /\ state' = state + 1
                    /\ rheld'[c] = rheld[c] + 1
      ]_vars

\* the writer holds the lock and spins in a second write acquisition
C11_Witness ==
    \E c \in RwCtx : wheld[c] /\ rwpc[c] = "w_spin_flag" /\ state = WRITE_FLAG

\* a context holds two read acquisitions at once
C11_ReadReentered == \E c \in RwCtx : rheld[c] >= 2 /\ state = rheld[c]

\* a context spins in lock() on a mutex it holds the guard of
C11_LockSelfDeadlock ==
    \E c \in Ctx, m \in Mutexes :
        lk[c] = m /\ BagIn(RawSpinLockGuard(m, TRUE), guards[c])

(* ---------------------------- Gate lifecycle --------------------------- *)

\* the production operations, on the mutex or on the reader/writer lock,
\* with enable_raw_atomics() at any time and any number of times
InitLifecycle == InitOnePrimitive(FALSE)

NextLifecycle ==
    \/ Enable
    \/ \E c \in Ctx, m \in Mutexes : Lock(c, m)
    \/ \E c \in Ctx : LockAcquire(c)
    \/ \E c \in Ctx : LockSpin(c)
    \/ \E c \in Ctx, g \in Guards : Drop(c, g)
    \/ NextRw

SpecLifecycle == InitLifecycle /\ [][NextLifecycle]_vars

\* C12. Gate lifecycle: the Gate is false initially; enable_raw_atomics() can
\* run in every state and leaves the Gate true; a step that changes the Gate
\* changes it to true and changes nothing else (no locked flag, no live
\* guard or its recorded mode, no context's position, no reader/writer
\* state); without disable_raw_atomics() a true Gate stays true, and an
\* enable with the Gate already true changes nothing at all.
C12_GateLifecycle ==
    /\ ~RAW_ATOMICS_ENABLED
    /\ [](ENABLED Enable)
    /\ [][/\ RAW_ATOMICS_ENABLED => RAW_ATOMICS_ENABLED'
          /\ Enable => RAW_ATOMICS_ENABLED'
          /\ RAW_ATOMICS_ENABLED' # RAW_ATOMICS_ENABLED =>
                /\ RAW_ATOMICS_ENABLED'
                /\ UNCHANGED <<locked, pc, lk, guards>>
                /\ UNCHANGED <<rwvars, dvars>>
          /\ (RAW_ATOMICS_ENABLED /\ Enable) => UNCHANGED vars
         ]_vars

\* the Gate was enabled while a guard handed out in bring-up mode was live
\* (it is still recorded as no-op) and another context has since entered the
\* compare-and-swap loop
C12_Witness ==
    \E c \in Ctx, d \in Ctx, m \in Mutexes :
        /\ RAW_ATOMICS_ENABLED
        /\ BagIn(RawSpinLockGuard(m, FALSE), guards[c])
        /\ lk[d] # NoMutex

\* the Gate is true and the reader/writer state holds readers admitted
\* before it was set
C12_EnabledOverReaders ==
    /\ RAW_ATOMICS_ENABLED
    /\ state = MaxReaders
    /\ \E c \in RwCtx : rwpc[c] = "r_cas"

(* ------------------- the whole of main: the two phases ----------------- *)

\* the main thread, next to the philosophers 1 .. 5
Main == 0

join_without_waiting(p) == TRUE

\* JoinHandle::join returns once the thread has run its closure to the end
thread_finished(p) == pc[p] = "done"

\* start of main: Gate false, the five semaphores free, no thread yet
InitMain ==
    /\ RAW_ATOMICS_ENABLED = FALSE
    /\ gate_seen = [p \in Phil |-> {FALSE}]
    /\ locked = [m \in Semaphores |-> FALSE]
    /\ pc = [c \in Phil \cup {Main} |->
                IF c = Main THEN "spawn1" ELSE "unspawned"]
    /\ lk = [p \in Phil |-> NoMutex]
    /\ guards = [p \in Phil |-> EmptyBag]
    /\ InitRw0
    /\ InitData0

\* the philosophers no thread runs at the moment (never spawned, or joined)
NotRunning == {p \in Phil : pc[p] \in {"unspawned", "joined"}}

\* map(|p| thread::spawn(..)).collect(): the next thread::spawn, in the
\* order of the vector; after the last one main goes on to the join loop
MainSpawn ==
    /\ pc[Main] \in {"spawn1", "spawn2"}
    /\ NotRunning # {}
    /\ LET p == Min(NotRunning) IN
         /\ pc' = [pc EXCEPT
                     ![p] = "lock_left",
                     ![Main] = IF NotRunning = {p}
                                 THEN (IF @ = "spawn1" THEN "join1" ELSE "join2")
                                 ELSE @]
         /\ gate_seen' = spawn_synchronises(p)
    /\ UNCHANGED <<RAW_ATOMICS_ENABLED, locked, lk, guards, rwvars, dvars>>

\* for h in handles { h.join().unwrap(); }: the next join, in order; after
\* the last one main goes on
MainJoin ==
    /\ pc[Main] \in {"join1", "join2"}
    /\ LET p == Min({q \in Phil : pc[q] # "joined"}) IN
         /\ thread_finished(p)
         /\ pc' = [pc EXCEPT
                     ![p] = "joined",
                     ![Main] = IF {q \in Phil : pc[q] # "joined"} = {p}
                                 THEN (IF @ = "join1" THEN "enable" ELSE "exit")
                                 ELSE @]
    /\ UNCHANGED <<RAW_ATOMICS_ENABLED, gate_seen, locked, lk, guards, rwvars, dvars>>

\* mutex::enable_raw_atomics();
MainEnable ==
    /\ pc[Main] = "enable"
    /\ ~RAW_ATOMICS_ENABLED
    /\ enable_raw_atomics
    /\ UNCHANGED <<rwvars, dvars>>

\* println!("--- With raw atomics enabled ---"); and the second vector
MainSecondPhase ==
    /\ pc[Main] = "enable"
    /\ RAW_ATOMICS_ENABLED
    /\ pc' = [pc EXCEPT ![Main] = "spawn2"]
    /\ UNCHANGED <<RAW_ATOMICS_ENABLED, gate_seen, locked, lk, guards, rwvars, dvars>>

MainStep == MainSpawn \/ MainJoin \/ MainEnable \/ MainSecondPhase

\* the steps of the thread of philosopher p
PhilStep(p) ==
    \/ EatLockLeft(p)
    \/ EatLockRight(p)
    \/ EatAcquire(p)
    \/ EatSpin(p)
    \/ EatDropRight(p)
    \/ EatDropLeft(p)

NextMain ==
    \/ MainSpawn
    \/ MainJoin
    \/ MainEnable
    \/ MainSecondPhase
    \/ \E p \in Phil : EatLockLeft(p)
    \/ \E p \in Phil : EatLockRight(p)
    \/ \E p \in Phil : EatAcquire(p)
    \/ \E p \in Phil : EatSpin(p)
    \/ \E p \in Phil : EatDropRight(p)
    \/ \E p \in Phil : EatDropLeft(p)

\* every thread that can take a step is eventually scheduled
FairMain ==
    /\ WF_vars(MainStep)
    /\ \A p \in Phil : WF_vars(PhilStep(p))

SpecMain == InitMain /\ [][NextMain]_vars /\ FairMain

\* main is in its second phase
SecondPhase == pc[Main] \in {"spawn2", "join2", "exit"}

\* no thread runs, no guard is live, nobody is inside lock(), no flag is set
Quiescent ==
    /\ \A p \in Phil : pc[p] = "joined"
    /\ \A p \in Phil : guards[p] = EmptyBag /\ lk[p] = NoMutex
    /\ \A m \in Semaphores : ~locked[m]

\* C13. Gate sequencing in main: enable_raw_atomics() is executed (the Gate
\* eventually becomes true) and only once (main never returns to it and a
\* true Gate stays true); the step that sets the Gate is taken by main with
\* every thread of the first phase joined, no thread of the second phase
\* spawned, no guard live and no context inside lock(); the Gate is false
\* throughout the first phase and true throughout the second, no store to
\* the Gate is made while a thread runs (a running thread can only read the
\* current value), so that every guard of the second phase is an unlocking
\* guard.
C13_GateSequencing ==
    /\ <>RAW_ATOMICS_ENABLED
    /\ [](\A p \in Phil :
            pc[p] \notin {"unspawned", "joined"}
                => raw_atomics_enabled(p) = {RAW_ATOMICS_ENABLED})
    /\ [](RAW_ATOMICS_ENABLED <=> (SecondPhase \/ ENABLED MainSecondPhase))
    /\ [](SecondPhase =>
            \A p \in Phil :
                ~BagIn(RawSpinLockGuard(Left(p), FALSE), guards[p])
                /\ ~BagIn(RawSpinLockGuard(Right(p), FALSE), guards[p]))
    /\ [][/\ RAW_ATOMICS_ENABLED => RAW_ATOMICS_ENABLED'
          /\ SecondPhase => SecondPhase'
          /\ RAW_ATOMICS_ENABLED' # RAW_ATOMICS_ENABLED =>
                /\ pc[Main] = "enable" /\ pc' = pc
                /\ Quiescent
                /\ Quiescent'
         ]_vars

\* the second phase runs: a philosopher holds an unlocking guard while the
\* Gate is true and main waits in its second join loop
C13_Witness ==
    /\ RAW_ATOMICS_ENABLED
    /\ pc[Main] = "join2"
    /\ \E p \in Phil :
          /\ pc[p] = "eating"
          /\ BagIn(RawSpinLockGuard(Left(p), TRUE), guards[p])
          /\ BagIn(RawSpinLockGuard(Right(p), TRUE), guards[p])

(* ------------- starvation in the reader/writer routines ---------------- *)

\* the context whose acquisition the schedule delays; the others are Others
StarveCtx == 1 .. NumStarveCtx

Victim == Min(StarveCtx)

Others == StarveCtx \ {Victim}

\* one context runs one acquisition routine while all the others run
\* acquire/release cycles of the other kind: a writer among readers, or a
\* reader among writers (pc names the routine a context calls)
InitStarve ==
    /\ RAW_ATOMICS_ENABLED = FALSE
    /\ gate_seen = [c \in StarveCtx |-> {FALSE}]
    /\ locked = [m \in OneMutex |-> FALSE]
    /\ lk = [c \in StarveCtx |-> NoMutex]
    /\ guards = [c \in StarveCtx |-> EmptyBag]
    /\ state = 0
    /\ rwpc = [c \in StarveCtx |-> "idle"]
    /\ current_state = [c \in StarveCtx |-> 0]
    /\ rheld = [c \in StarveCtx |-> 0]
    /\ wheld = [c \in StarveCtx |-> FALSE]
    /\ InitData0
    /\ \/ pc = [c \in StarveCtx |-> IF c = Victim THEN "writer" ELSE "reader"]
       \/ pc = [c \in StarveCtx |-> IF c = Victim THEN "reader" ELSE "writer"]

\* the compare-and-swap of context c finds a state other than the one loaded
cas_must_fail(c) == ~compare_exchange_weak(state, current_state[c])

\* the schedule: every step is a step of the routines; the Victim is only
\* let to attempt its compare-and-swap when the state differs from what it
\* loaded, and no compare-and-swap fails spuriously; a holder releases
\* before it calls an acquisition routine again
StarveReadLoad(c) ==
    /\ pc[c] = "reader"
    /\ rheld[c] = 0
    /\ r_load(c)
    /\ UNCHANGED <<mvars, dvars>>

StarveReadCas(c) ==
    pc[c] = "reader" /\ c # Victim /\ r_cas(c) /\ UNCHANGED <<mvars, dvars>>

StarveReadFail(c) ==
    pc[c] = "reader" /\ cas_must_fail(c) /\ r_cas_fail(c)
        /\ UNCHANGED <<mvars, dvars>>

StarveReadUnlock(c) ==
    pc[c] = "reader" /\ rw_read_unlock_atomic(c) /\ UNCHANGED <<mvars, dvars>>

StarveWriteLoad(c) ==
    pc[c] = "writer" /\ ~wheld[c] /\ w_load(c) /\ UNCHANGED <<mvars, dvars>>

StarveWriteCas(c) ==
    pc[c] = "writer" /\ c # Victim /\ w_cas(c) /\ UNCHANGED <<mvars, dvars>>

StarveWriteFail(c) ==
    pc[c] = "writer" /\ cas_must_fail(c) /\ w_cas_fail(c)
        /\ UNCHANGED <<mvars, dvars>>

StarveDrain(c) ==
    pc[c] = "writer" /\ w_drain(c) /\ UNCHANGED <<mvars, dvars>>

StarveWriteUnlock(c) ==
    pc[c] = "writer" /\ rw_write_unlock_atomic(c) /\ UNCHANGED <<mvars, dvars>>

\* the steps of context c under the schedule
StarveStep(c) ==
    \/ StarveReadLoad(c)
    \/ StarveReadCas(c)
    \/ StarveReadFail(c)
    \/ StarveReadUnlock(c)
    \/ StarveWriteLoad(c)
    \/ StarveWriteCas(c)
    \/ StarveWriteFail(c)
    \/ StarveDrain(c)
    \/ StarveWriteUnlock(c)

NextStarve ==
    \/ \E c \in StarveCtx : StarveReadLoad(c)
    \/ \E c \in StarveCtx : StarveReadCas(c)
    \/ \E c \in StarveCtx : StarveReadFail(c)
    \/ \E c \in StarveCtx : StarveReadUnlock(c)
    \/ \E c \in StarveCtx : StarveWriteLoad(c)
    \/ \E c \in StarveCtx : StarveWriteCas(c)
    \/ \E c \in StarveCtx : StarveWriteFail(c)
    \/ \E c \in StarveCtx : StarveDrain(c)
    \/ \E c \in StarveCtx : StarveWriteUnlock(c)

\* every context keeps being scheduled: each of the Others takes a step when
\* it can; the Victim, whose routine can take a step at any time, takes the
\* steps the schedule leaves it again and again
FairStarve ==
    /\ \A c \in Others : WF_vars(StarveStep(c))
    /\ SF_vars(StarveStep(Victim))

SpecStarve == InitStarve /\ [][NextStarve]_vars /\ FairStarve

\* C14. No fairness in the reader/writer routines: under a schedule that is
\* fair to every context and in which every holder releases, the readers
\* complete read acquisitions and release them again and again while the
\* writer loads and attempts its compare-and-swap again and again, each
\* attempt failing because the state is not the one it loaded, and never
\* sets the write flag; and the writers set the flag, hold and release again
\* and again while the reader attempts again and again and never completes.
C14_Starvation ==
    /\ [](~wheld[Victim] /\ rheld[Victim] = 0 /\ rwpc[Victim] # "w_drain")
    /\ [](pc[Victim] = "writer" => ~HasWriteFlag(state))
    /\ [][\A c \in StarveCtx :
            (rwpc[c] \in {"r_cas", "w_cas"}
                /\ rwpc'[c] \in {"r_retry", "w_retry"})
              => state # current_state[c]]_vars
    /\ []<>(rwpc[Victim] \in {"r_cas", "w_cas"})
    /\ []<>(rwpc[Victim] \in {"r_retry", "w_retry", "r_spin_flag"})
    /\ pc[Victim] = "writer" =>
          /\ []<><<\E c \in Others : StarveReadCas(c)>>_vars
          /\ []<><<\E c \in Others : StarveReadUnlock(c)>>_vars
    /\ pc[Victim] = "reader" =>
          /\ []<><<\E c \in Others : StarveWriteCas(c)>>_vars
          /\ []<>(\E c \in Others : wheld[c])
          /\ []<><<\E c \in Others : StarveWriteUnlock(c)>>_vars

\* the writer is about to fail its compare-and-swap: a reader was admitted
\* after the writer loaded a state without readers
C14_Witness ==
    /\ pc[Victim] = "writer"
    /\ rwpc[Victim] = "w_cas"
    /\ current_state[Victim] = 0
    /\ \E c \in Others : rheld[c] > 0
    /\ state # current_state[Victim]

\* the reader is about to fail its compare-and-swap: a writer set the flag
\* after the reader loaded a state without it
C14_ReaderStarved ==
    /\ pc[Victim] = "reader"
    /\ rwpc[Victim] = "r_cas"
    /\ \E c \in Others : wheld[c]

(* ---------------------- accounting of the lock state ------------------- *)

\* C15. Lock-state accounting: under every interleaving of lock(), no_lock(),
\* drops, enable_raw_atomics() and disable_raw_atomics(), a mutex has at
\* most one live guard recorded as unlocking, and its locked flag is set
\* exactly when it has one (the guard exists from the successful
\* compare-and-swap of lock_atomic to its drop); a step that creates or drops
\* a guard recorded as no-op leaves every locked flag as it was.
C15_LockStateAccounting ==
    /\ [](\A m \in Mutexes :
            /\ UnlockingGuardsOf(m) <= 1
            /\ locked[m] <=> UnlockingGuardsOf(m) = 1)
    /\ [][\A c \in Ctx, m \in Mutexes :
            (NewGuardStep(c, RawSpinLockGuard(m, FALSE))
                \/ DropStep(c, RawSpinLockGuard(m, FALSE)))
              => locked' = locked
         ]_vars

\* the Gate was reset while a mutex is held: its one unlocking guard is live
\* and its flag set, a context still spins in lock() on it, and another
\* context holds a no-op guard of it
C15_Witness ==
    \E m \in Mutexes, c \in Ctx, d \in Ctx, e \in Ctx :
        /\ ~RAW_ATOMICS_ENABLED
        /\ locked[m]
        /\ BagIn(RawSpinLockGuard(m, TRUE), guards[c])
        /\ d # c /\ BagIn(RawSpinLockGuard(m, FALSE), guards[d])
        /\ e # c /\ e # d /\ lk[e] = m

(* ------------------ the Gate set while a guard is live ----------------- *)

\* contexts are started at any time, before or after the Gate is set, and the
\* Gate is set at any time; every guard comes from lock()
InitFlip ==
    /\ RAW_ATOMICS_ENABLED = FALSE
    /\ gate_seen = [c \in Ctx |-> {FALSE}]
    /\ locked = [m \in OneMutex |-> FALSE]
    /\ pc = [c \in Ctx |-> "unspawned"]
    /\ lk = [c \in Ctx |-> NoMutex]
    /\ guards = [c \in Ctx |-> EmptyBag]
    /\ InitRw0
    /\ InitData0

\* thread::spawn in either mode
SpawnEitherMode == thread_spawn /\ UNCHANGED <<rwvars, dvars>>

NextFlip ==
    \/ Enable
    \/ SpawnEitherMode
    \/ \E c \in Ctx, m \in Mutexes : Lock(c, m)
    \/ \E c \in Ctx : LockAcquire(c)
    \/ \E c \in Ctx : LockSpin(c)
    \/ \E c \in Ctx, g \in Guards : Drop(c, g)

SpecFlip == InitFlip /\ [][NextFlip]_vars

\* no live guard is recorded as no-op
NoNoopGuards ==
    \A c \in Ctx, m \in Mutexes :
        ~BagIn(RawSpinLockGuard(m, FALSE), guards[c])

\* context c was started after the Gate was set: it cannot read false
StartedAfterFlip(c) == pc[c] # "unspawned" /\ gate_seen[c] = {TRUE}

\* C16 as stated: with the Gate true a context in lock() on a mutex without
\* unlocking guard finds the flag clear and can complete at once, also while
\* a guard handed out before the flip is live, so that two live guards of one
\* mutex are reachable; the guards handed out with the Gate true still
\* exclude each other, and when no guard is live at the flip none recorded as
\* no-op appears later, so that then no mutex ever has two live guards.
C16_FlipWithGuardOutstanding ==
    /\ [](\A m \in Mutexes, b \in Ctx :
            (RAW_ATOMICS_ENABLED /\ lk[b] = m /\ UnlockingGuardsOf(m) = 0)
                => (~locked[m] /\ ENABLED LockAcquire(b)))
    /\ [](\A m \in Mutexes : UnlockingGuardsOf(m) <= 1)
    /\ [](\A m \in Mutexes :
            (RAW_ATOMICS_ENABLED /\ NoNoopGuards) => GuardsOf(m) <= 1)
    /\ [][(RAW_ATOMICS_ENABLED /\ NoNoopGuards) => NoNoopGuards']_vars

\* C16 as amended: with the Gate true a context in the compare-and-swap loop
\* on a mutex without unlocking guard finds the flag clear and can complete
\* at once, also while a no-op guard is live, so that two live guards of one
\* mutex are reachable (the witness); unlocking guards exclude each other; a
\* context started after the flip gets unlocking guards only, and when every
\* context was started after the flip no mutex ever has two live guards.
\* (A flip with no guard live is not enough: a context that was running at
\* the flip may read the Gate as false afterwards.)
C16_FlipBeforeStart ==
    /\ [](\A m \in Mutexes, b \in Ctx :
            (RAW_ATOMICS_ENABLED /\ lk[b] = m /\ UnlockingGuardsOf(m) = 0)
                => (~locked[m] /\ ENABLED LockAcquire(b)))
    /\ [](\A m \in Mutexes : UnlockingGuardsOf(m) <= 1)
    /\ [](\A c \in Ctx, m \in Mutexes :
            StartedAfterFlip(c)
                => ~BagIn(RawSpinLockGuard(m, FALSE), guards[c]))
    /\ [](\A m \in Mutexes :
            (\A c \in Ctx : pc[c] # "unspawned" => StartedAfterFlip(c))
                => GuardsOf(m) <= 1)

\* a context that was running at the flip holds a no-op guard next to the
\* unlocking guard of a context started after the flip, and a third context
\* spins in lock()
C16_StaleNextToFresh ==
    \E m \in Mutexes, a \in Ctx, b \in Ctx :
        /\ RAW_ATOMICS_ENABLED
        /\ gate_seen[a] = {FALSE, TRUE}
        /\ StartedAfterFlip(b)
        /\ BagIn(RawSpinLockGuard(m, FALSE), guards[a])
        /\ BagIn(RawSpinLockGuard(m, TRUE), guards[b])
        /\ \E d \in Ctx : d # a /\ d # b /\ lk[d] = m

\* A holds a guard from before the flip, B completed lock() on the same
\* mutex after it: two guards of one mutex are live
C16_Witness ==
    \E m \in Mutexes, a \in Ctx, b \in Ctx :
        /\ a # b
        /\ RAW_ATOMICS_ENABLED
        /\ GuardsOf(m) = 2
        /\ guards[a] = SetToBag({RawSpinLockGuard(m, FALSE)})
        /\ guards[b] = SetToBag({RawSpinLockGuard(m, TRUE)})

(* ----------------------- writers against new readers ------------------- *)

\* the contexts that have set the write flag and not yet released it
FlagOwners == {c \in RwCtx : rwpc[c] = "w_drain" \/ wheld[c]}

\* C17. A pending writer shuts out new readers: whenever the write flag is
\* set exactly one context has set it and not released it; a step taken
\* with the flag set completes no read acquisition, does not raise the
\* reader bits, lets no other writer's compare-and-swap succeed, and clears
\* the flag only by the owner's rw_write_unlock_atomic; a context that is at
\* its compare-and-swap with the flag set (it loaded the state before)
\* leaves it only by failing and retrying.
C17_WriterShutsOutReaders ==
    /\ [](HasWriteFlag(state) <=> Cardinality(FlagOwners) = 1)
    /\ [](Cardinality(FlagOwners) <= 1)
    /\ [][HasWriteFlag(state) =>
            /\ \A c \in RwCtx : rheld'[c] <= rheld[c]
            /\ ReaderBits(state') <= ReaderBits(state)
            /\ \A c \in RwCtx : ~(rwpc[c] = "w_cas" /\ rwpc'[c] = "w_drain")
            /\ \A c \in RwCtx :
                  (rwpc[c] \in {"r_cas", "w_cas"} /\ rwpc'[c] # rwpc[c])
                      => rwpc'[c] \in {"r_retry", "w_retry"}
            /\ ~HasWriteFlag(state') =>
                  \E c \in RwCtx : wheld[c] /\ ~wheld'[c] /\ FlagOwners = {c}
         ]_vars

\* a writer drains while a reader that loaded the state before the flag was
\* set is at its compare-and-swap
C17_Witness ==
    \E c \in RwCtx, d \in RwCtx :
        /\ c # d
        /\ rwpc[c] = "w_drain"
        /\ rwpc[d] = "r_cas"
        /\ ~HasWriteFlag(current_state[d])
        /\ state = SetWriteFlag(current_state[d])
        /\ ReaderBits(state) > 0

(* ----------------------------- writer drain ---------------------------- *)

\* a writer in its drain loop keeps executing it, and a holder of a read
\* acquisition that is not inside a routine goes on to release it
FairRw ==
    /\ \A c \in RwCtx : WF_vars(w_drain(c) /\ UNCHANGED <<mvars, dvars>>)
    /\ \A c \in RwCtx :
          WF_vars(rw_read_unlock_atomic(c) /\ UNCHANGED <<mvars, dvars>>)

SpecRwFair == InitRw /\ [][NextRw]_vars /\ FairRw

\* a holder of a read acquisition is inside an acquisition routine, which it
\* has to leave before it can release
HolderInsideRoutine == \E d \in RwCtx : rheld[d] > 0 /\ rwpc[d] # "idle"

\* C18. Writer drain terminates: a writer that has set the flag eventually
\* returns from rw_write_lock_atomic, unless a context that holds a read
\* acquisition has entered an acquisition routine instead of releasing (it
\* then never releases); the writer returns only in a state equal to
\* WRITE_FLAG, and the return leaves the state as it is.
C18_DrainTerminates ==
    /\ \A c \in RwCtx :
          (rwpc[c] = "w_drain") ~> (wheld[c] \/ HolderInsideRoutine)
    /\ [][\A c \in RwCtx :
            (rwpc[c] = "w_drain" /\ rwpc'[c] # "w_drain") =>
                /\ state = WRITE_FLAG
                /\ state' = WRITE_FLAG
                /\ wheld'[c]
                /\ \A d \in RwCtx : rheld[d] = 0
         ]_vars

\* a writer has set the flag over two read acquisitions whose holder is
\* free to release them
C18_Witness ==
    \E c \in RwCtx, d \in RwCtx :
        /\ rwpc[c] = "w_drain"
        /\ rheld[c] = 0
        /\ rheld[d] = 2
        /\ rwpc[d] = "idle"
        /\ state = WRITE_FLAG + 2

\* without the exception: every writer that set the flag returns
C18_DrainAlwaysTerminates ==
    \A c \in RwCtx : (rwpc[c] = "w_drain") ~> wheld[c]

(* ------------------ accounting of the reader/writer state -------------- *)

\* the read acquisitions completed and not yet released, over all contexts
ReadsHeld == SumOver(DOMAIN rheld, rheld)

\* C19. State accounting: with every release issued by a holder, the reader
\* bits of the state equal the number of read acquisitions completed and not
\* released, and the write flag is set exactly when one writer has set it
\* and not released; a read release lowers the state by exactly one and
\* keeps the flag, a write release clears the flag and keeps the reader
\* bits; with nothing held and no flag owner the state is 0.
C19_StateAccounting ==
    /\ [](ReaderBits(state) = ReadsHeld)
    /\ [](HasWriteFlag(state) <=> FlagOwners # {})
    /\ []((ReadsHeld = 0 /\ FlagOwners = {}) => state = 0)
    /\ [][\A c \in RwCtx :
            /\ rheld'[c] < rheld[c] =>
                  /\ rheld'[c] = rheld[c] - 1
                  /\ state' = state - 1
                  /\ HasWriteFlag(state') <=> HasWriteFlag(state)
            /\ (wheld[c] /\ ~wheld'[c]) =>
                  /\ HasWriteFlag(state) /\ ~HasWriteFlag(state')
                  /\ ReaderBits(state') = ReaderBits(state)
                  /\ rheld' = rheld
         ]_vars

\* two contexts hold read acquisitions and one of them has set the flag
C19_Witness ==
    \E c \in RwCtx, d \in RwCtx :
        /\ c # d
        /\ rheld[c] >= 1 /\ rheld[d] >= 2
        /\ HasWriteFlag(state)
        /\ ReaderBits(state) = rheld[c] + rheld[d]

\* everything was released again
C19_AllReleased ==
    /\ state = 0
    /\ \A c \in RwCtx : rwpc[c] = "r_retry"

(* ------------------------ progress of RawSpinLock ---------------------- *)

\* a context that is in the loop of lock_atomic while the flag is free gets
\* the flag if the flag stays free: its compare-and-swap fails spuriously
\* only finitely often
FairRaw == \A c \in Ctx : WF_vars(LockAcquire(c))

SpecRawFair == InitRaw /\ [][NextRaw]_vars /\ FairRaw

\* some context spins in lock() on mutex m
Waiting(m) == \E c \in Ctx : lk[c] = m

\* C20. Progress of RawSpinLock: in raw-atomic mode a mutex never stays free
\* for ever while a context spins in lock() on it: some context completes
\* lock() on it; and when its guard is dropped again and again while some
\* context keeps waiting, lock() on it completes again and again. (That no
\* single waiter is sure to acquire shows in C20_EveryWaiterAcquires.)
C20_LockProgress ==
    \A m \in Mutex :
        /\ (Waiting(m) /\ ~locked[m]) ~> locked[m]
        /\ ([]<>(~locked[m]) /\ <>[]Waiting(m)) =>
              []<><<\E c \in Ctx : lk[c] = m /\ LockAcquire(c)>>_vars

\* a context spins on a free mutex on which the context that just dropped
\* its guard is back in lock() as well
C20_Witness ==
    \E m \in Mutex, c \in Ctx, d \in Ctx :
        /\ c # d
        /\ RAW_ATOMICS_ENABLED
        /\ lk[c] = m /\ lk[d] = m
        /\ ~locked[m]
        /\ guards[c] = EmptyBag /\ guards[d] = EmptyBag

\* the guarantee the design does not give: every waiter on a mutex whose
\* guard is dropped again and again completes its lock()
C20_EveryWaiterAcquires ==
    \A m \in Mutex, c \in Ctx :
        ([]<>(~locked[m])) => ((lk[c] = m) ~> (lk[c] # m))

====
